---- MODULE Spec2Model ----
(***************************************************************************)
(* Inventory reservation and checkout settlement of the Merchant API.      *)
(*                                                                         *)
(* The store is a relational database (READ COMMITTED).  Every awaited     *)
(* statement of a handler is one atomic step; a db.transaction block whose *)
(* statements are only UPDATE ... WHERE / INSERT / DELETE on rows it locks *)
(* takes effect atomically at its commit and is one step as well.  Between *)
(* two steps of one request any step of another request may run.           *)
(*                                                                         *)
(* Time is counted in ticks of 30 minutes; handling a request is short     *)
(* against a tick, so the clock advances between requests.                 *)
(***************************************************************************)
EXTENDS Integers, Sequences, FiniteSets, TLC

\* ---- bounds of the model -------------------------------------------------
MaxReq == 2
MaxTime == 1
MaxInFlight == 2

\* ---- program constants ---------------------------------------------------
\* `now() + interval '30 minutes'` / `Date.now() + 30 * 60 * 1000`, in ticks
HoldTicks == 1

Variants == {"A", "B"}
Carts == {"c1", "c2"}
\* request slots; a run admits MaxReq requests, or one more (see `limit`)
Reqs == 1..(MaxReq + 1)

VARIABLES
  stock,         \* inventory.stock_quantity per variant_id
  reservations,  \* rows of the reservations table
  cartStatus,    \* carts.status per cart
  cartExpires,   \* carts.expires_at per cart
  cartItems,     \* rows of cart_items per cart, in the order the cart query returns them
  orders,        \* rows of the orders table
  orderItems,    \* rows of the order_items table
  payments,      \* rows of the payments table
  sessions,      \* checkout sessions that exist at the payment provider
  req,           \* the requests being handled: position and local variables
  now,           \* the clock
  initStock,     \* stock before the first request (never changes)
  stockAtStart,  \* stock when the request in flight was accepted (kept when requests
                 \* are handled one at a time)
  overlap,       \* TRUE when requests are handled concurrently
  limit          \* number of requests the run admits

db == <<stock, reservations, cartStatus, cartExpires, cartItems, orders, orderItems, payments>>
env == <<sessions, now, initStock, overlap, limit>>
vars == <<stock, reservations, cartStatus, cartExpires, cartItems, orders, orderItems,
          payments, sessions, req, now, initStock, stockAtStart, overlap, limit>>

\* ---- helpers ---------------------------------------------------------------
\* a row of cart_items; the rows a cart starts with are named after their unit,
\* a row inserted by the request in slot r is named RowId(r)
Item(v, q) == [id |-> v, variant_id |-> v, quantity |-> q]
RowId(r) == "r" \o ToString(r)

RECURSIVE SumRows(_, _)
\* sum of the quantity column over a set of rows of one variant
SumRows(rows, v) ==
  IF rows = {} THEN 0
  ELSE LET x == CHOOSE y \in rows : TRUE
       IN (IF x.variant_id = v THEN x.quantity ELSE 0) + SumRows(rows \ {x}, v)

RECURSIVE SumItems(_, _, _)
\* sum of the quantity of the items of one variant in an item list
SumItems(items, k, v) ==
  IF k > Len(items) THEN 0
  ELSE (IF items[k].variant_id = v THEN items[k].quantity ELSE 0) + SumItems(items, k + 1, v)

NoReq == [kind |-> "none", pc |-> "idle", cart |-> "none", sess |-> 0, items |-> <<>>,
          status |-> "none", rows |-> {}, order |-> 0, ret |-> "none", outcome |-> "none",
          intent |-> FALSE]

\* a request leaves its handler: the locals are dropped; what was asked and the
\* outcome are kept
Finish(rec, outcome) ==
  [NoReq EXCEPT !.kind = rec.kind, !.pc = "done", !.outcome = outcome,
                !.cart = IF rec.kind = "inventory" THEN "none" ELSE rec.cart,
                !.sess = rec.sess]

InFlight(r) == req[r].pc \notin {"idle", "done"}
Quiescent == \A r \in Reqs : ~InFlight(r)

\* request slot r accepts a new request
Accept(r) ==
  /\ req[r].pc = "idle"
  /\ r <= limit
  /\ \A q \in Reqs : q < r => req[q].pc # "idle"
  /\ IF overlap THEN Cardinality({q \in Reqs : InFlight(q)}) < MaxInFlight ELSE Quiescent
  /\ stockAtStart' = IF overlap THEN stockAtStart ELSE stock

\* ---- lib/inventory: reserveStock -----------------------------------------
\* the decrement without its availability check
ReserveGuardAlways(cur, qty) == TRUE

\* gte(inventoryTable.stock_quantity, item.quantity)
ReserveGuard(cur, qty) == cur >= qty

\* a rollback that keeps what the transaction wrote so far
TxRollbackKeepsWrites(before, partial) == partial

\* tx.rollback(): the transaction's writes are undone
TxRollback(before, partial) == before

\* tx.rollback() throws TransactionRollbackError: the statement after it is not
\* reached, db.transaction undoes the writes and rethrows
RollbackRaises == TRUE

\* eq(inventoryTable.variant_id, item.variant_id): the unit has an inventory record
HasInventory(st, v) == v \in DOMAIN st

RECURSIVE ReserveLoop(_, _, _, _, _, _, _)
ReserveLoop(st, rs, rid, cartId, items, expiresAt, k) ==
  IF k > Len(items)
  THEN [success |-> TRUE, raised |-> FALSE, stock |-> st, rows |-> rs,
        failed_variant_id |-> "none"]
  ELSE LET item == items[k] IN
       IF HasInventory(st, item.variant_id) /\ ReserveGuard(st[item.variant_id], item.quantity)
       THEN ReserveLoop([st EXCEPT ![item.variant_id] = @ - item.quantity],
                        rs \cup {[id |-> <<rid, k>>, cart_id |-> cartId,
                                  variant_id |-> item.variant_id,
                                  quantity |-> item.quantity, expires_at |-> expiresAt]},
                        rid, cartId, items, expiresAt, k + 1)
       ELSE [success |-> FALSE, raised |-> RollbackRaises, stock |-> st, rows |-> rs,
             failed_variant_id |-> item.variant_id]

\* a reserveStock whose failed transaction commits what it wrote
reserveStockCommitsPartial(st, rs, rid, cartId, items, expiresAt) ==
  ReserveLoop(st, rs, rid, cartId, items, expiresAt, 1)

reserveStock(st, rs, rid, cartId, items, expiresAt) ==
  LET res == ReserveLoop(st, rs, rid, cartId, items, expiresAt, 1) IN
  IF res.success THEN res
  ELSE [res EXCEPT !.stock = TxRollback(st, res.stock), !.rows = TxRollback(rs, res.rows)]

\* ---- POST /cart/checkout ---------------------------------------------------
\* a checkout that never finds the cart expired
CartExpiredNever(expiresAt, t) == FALSE

\* cart.expires_at < new Date()
CartExpired(expiresAt, t) == expiresAt < t

CheckoutLoadCart(r, c) ==
  /\ Accept(r)
  /\ LET rec == [NoReq EXCEPT !.kind = "checkout", !.cart = c, !.items = cartItems[c],
                             !.status = cartStatus[c]]
     IN req' = [req EXCEPT ![r] =
          IF Len(cartItems[c]) = 0 THEN Finish(rec, "cart_empty")
          ELSE IF CartExpired(cartExpires[c], now) THEN Finish(rec, "cart_expired")
          ELSE [rec EXCEPT !.pc = "co_refresh"]]
  /\ UNCHANGED <<db, env>>

CheckoutRefreshExpiry(r) ==
  /\ req[r].pc = "co_refresh"
  /\ cartExpires' = [cartExpires EXCEPT ![req[r].cart] = now + HoldTicks]
  /\ req' = [req EXCEPT ![r] =
       IF req[r].status # "active" THEN Finish(req[r], "already_checked_out")
       ELSE [req[r] EXCEPT !.pc = "co_precheck"]]
  /\ UNCHANGED <<stock, reservations, cartStatus, cartItems, orders, orderItems, payments,
                 env, stockAtStart>>

\* a lookup that counts a unit without inventory record as one in stock
InventoryMapGetOne(st, v) == IF v \in DOMAIN st THEN st[v] ELSE 1

\* inventoryMap.get(item.variant_id) ?? 0
InventoryMapGet(st, v) == IF v \in DOMAIN st THEN st[v] ELSE 0

\* a read-only check that also refuses a request for exactly what is in stock
StockErrorsOffByOne(items, st) ==
  {k \in 1..Len(items) : InventoryMapGet(st, items[k].variant_id) <= items[k].quantity}

\* stockErrors of the read-only check
StockErrors(items, st) ==
  {k \in 1..Len(items) : InventoryMapGet(st, items[k].variant_id) < items[k].quantity}

CheckoutPrecheck(r) ==
  /\ req[r].pc = "co_precheck"
  /\ req' = [req EXCEPT ![r] =
       IF StockErrors(req[r].items, stock) # {} THEN Finish(req[r], "insufficient_stock")
       ELSE [req[r] EXCEPT !.pc = "co_reserve"]]
  /\ UNCHANGED <<db, env, stockAtStart>>

CheckoutReserve(r) ==
  /\ req[r].pc = "co_reserve"
  /\ LET res == reserveStock(stock, reservations, r, req[r].cart, req[r].items,
                             now + HoldTicks)
     IN /\ stock' = res.stock
        /\ reservations' = res.rows
        /\ req' = [req EXCEPT ![r] =
             IF res.raised THEN Finish(req[r], "reserve_raised")
             ELSE IF ~res.success THEN Finish(req[r], "stock_changed")
             ELSE [req[r] EXCEPT !.pc = "co_session"]]
  /\ UNCHANGED <<cartStatus, cartExpires, cartItems, orders, orderItems, payments,
                 env, stockAtStart>>

\* stripe.checkout.sessions.create: returns a session with a url, a session
\* without a url, or throws
CheckoutCreateSession(r) ==
  /\ req[r].pc = "co_session"
  /\ \E result \in {"url", "no_url", "throws"}, intent \in BOOLEAN :
       /\ result # "url" => intent
       /\ sessions' = IF result = "throws" THEN sessions
                      ELSE sessions \cup {[id |-> r, cart_id |-> req[r].cart,
                                           url |-> (result = "url"),
                                           payment_intent |-> intent]}
       /\ req' = [req EXCEPT ![r] =
            IF result = "url" THEN [req[r] EXCEPT !.pc = "co_mark", !.sess = r]
            ELSE [req[r] EXCEPT !.pc = "restore_select", !.ret = "done",
                                !.outcome = IF result = "throws" THEN "session_failed"
                                            ELSE "session_no_url"]]
  /\ UNCHANGED <<db, now, initStock, overlap, limit, stockAtStart>>

CheckoutMarkOrdered(r) ==
  /\ req[r].pc = "co_mark"
  /\ cartStatus' = [cartStatus EXCEPT ![req[r].cart] = "ordered"]
  /\ req' = [req EXCEPT ![r].pc = "co_insert"]
  /\ UNCHANGED <<stock, reservations, cartExpires, cartItems, orders, orderItems, payments,
                 env, stockAtStart>>

\* an orders table without its unique constraints
OrderInsertAlways(os, cartId, sessionId) == TRUE

\* unique(cart_id), unique(stripe_checkout_session_id) of the orders table
OrderInsertAllowed(os, cartId, sessionId) ==
  \A o \in os : o.cart_id # cartId /\ o.stripe_checkout_session_id # sessionId

CheckoutInsertOrder(r) ==
  /\ req[r].pc = "co_insert"
  /\ IF OrderInsertAllowed(orders, req[r].cart, req[r].sess)
     THEN /\ orders' = orders \cup {[id |-> req[r].sess, cart_id |-> req[r].cart,
                                     stripe_checkout_session_id |-> req[r].sess,
                                     status |-> "pending", reserved |-> req[r].items]}
          /\ req' = [req EXCEPT ![r] = Finish(req[r], "ok")]
     ELSE /\ orders' = orders
          /\ req' = [req EXCEPT ![r] = Finish(req[r], "order_insert_raised")]
  /\ UNCHANGED <<stock, reservations, cartStatus, cartExpires, cartItems, orderItems,
                 payments, env, stockAtStart>>

\* the insert of the Order raises for a reason of the database (connection lost,
\* statement timeout): the error leaves the handler, no row is written
CheckoutInsertOrderRaises(r) ==
  /\ req[r].pc = "co_insert"
  /\ req' = [req EXCEPT ![r] = Finish(req[r], "order_insert_raised")]
  /\ UNCHANGED <<db, env, stockAtStart>>

\* ---- lib/inventory: restoreStockFromReservations ---------------------------
AfterRestore(rec) ==
  IF rec.ret = "done" THEN Finish(rec, rec.outcome)
  ELSE [rec EXCEPT !.pc = rec.ret, !.rows = {}, !.ret = "none"]

RestoreSelect(r) ==
  /\ req[r].pc = "restore_select"
  /\ LET rows == {x \in reservations : x.cart_id = req[r].cart}
     IN req' = [req EXCEPT ![r] =
          IF rows = {} THEN AfterRestore(req[r])
          ELSE [req[r] EXCEPT !.pc = "restore_tx", !.rows = rows]]
  /\ UNCHANGED <<db, env, stockAtStart>>

\* a release that deletes the rows and forgets the increment
restoreStockForgotten(st, rows) == st

\* for (const reservation of reservations): stock_quantity + reservation.quantity
restoreStock(st, rows) == [v \in DOMAIN st |-> st[v] + SumRows(rows, v)]

RestoreTx(r) ==
  /\ req[r].pc = "restore_tx"
  /\ stock' = restoreStock(stock, req[r].rows)
  /\ reservations' = {x \in reservations : x.cart_id # req[r].cart}
  /\ req' = [req EXCEPT ![r] = AfterRestore(req[r])]
  /\ UNCHANGED <<cartStatus, cartExpires, cartItems, orders, orderItems, payments,
                 env, stockAtStart>>

\* ---- POST /webhooks: checkout.session.completed ------------------------------
\* the checkout sessions a notification can be about
SessionObjects == [id : Reqs, cart_id : Carts, url : BOOLEAN, payment_intent : BOOLEAN]

\* the provider reports completion of a session that has a url, once the
\* checkout request that created it has returned (with the url, or with the
\* error of a later step: the session exists at the provider either way)
CompletedDeliverable(s) ==
  /\ s.url
  /\ req[s.id].pc = "done"

\* a lookup that takes the first Order whatever its session id
FindOrderAny(os, sessionId) ==
  IF os # {} THEN (CHOOSE o \in os : TRUE).id ELSE 0

\* db.query.ordersTable.findFirst(where stripe_checkout_session_id = id)
FindOrder(os, sessionId) ==
  IF \E o \in os : o.stripe_checkout_session_id = sessionId
  THEN (CHOOSE o \in os : o.stripe_checkout_session_id = sessionId).id
  ELSE 0

CompletedFindOrder(r, s) ==
  /\ Accept(r)
  /\ s \in sessions
  /\ CompletedDeliverable(s)
  /\ LET rec == [NoReq EXCEPT !.kind = "completed", !.cart = s.cart_id, !.sess = s.id,
                             !.intent = s.payment_intent,
                             !.order = FindOrder(orders, s.id)]
     IN req' = [req EXCEPT ![r] =
          IF rec.order = 0 THEN Finish(rec, "order_not_found")
          ELSE [rec EXCEPT !.pc = "cp_cart"]]
  /\ UNCHANGED <<db, env>>

CompletedLoadCart(r) ==
  /\ req[r].pc = "cp_cart"
  /\ req' = [req EXCEPT ![r] = [req[r] EXCEPT !.pc = "cp_update",
                                              !.items = cartItems[req[r].cart]]]
  /\ UNCHANGED <<db, env, stockAtStart>>

\* an update of the order status that matches no row
SetOrderStatusNoRow(os, orderId, status) == os

\* db.update(ordersTable).set({status: ...}).where(eq(ordersTable.id, order.id))
SetOrderStatus(os, orderId, status) ==
  {IF o.id = orderId THEN [o EXCEPT !.status = status] ELSE o : o \in os}

CompletedUpdateOrder(r) ==
  /\ req[r].pc = "cp_update"
  /\ orders' = SetOrderStatus(orders, req[r].order, "paid")
  /\ req' = [req EXCEPT ![r].pc = "cp_items"]
  /\ UNCHANGED <<stock, reservations, cartStatus, cartExpires, cartItems, orderItems,
                 payments, env, stockAtStart>>

CompletedInsertItems(r) ==
  /\ req[r].pc = "cp_items"
  /\ orderItems' = orderItems \cup
       {[id |-> <<r, k>>, order_id |-> req[r].order,
         variant_id |-> req[r].items[k].variant_id,
         quantity |-> req[r].items[k].quantity] : k \in 1..Len(req[r].items)}
  /\ req' = [req EXCEPT ![r].pc = IF req[r].intent THEN "cp_payment" ELSE "cp_clear"]
  /\ UNCHANGED <<stock, reservations, cartStatus, cartExpires, cartItems, orders,
                 payments, env, stockAtStart>>

\* uniqueIndex on payments.stripe_checkout_session_id and payments.stripe_payment_intent_id
PaymentInsertAllowed(ps, sessionId) ==
  \A p \in ps : p.stripe_checkout_session_id # sessionId

CompletedInsertPayment(r) ==
  /\ req[r].pc = "cp_payment"
  /\ IF PaymentInsertAllowed(payments, req[r].sess)
     THEN /\ payments' = payments \cup {[order_id |-> req[r].order,
                                         stripe_checkout_session_id |-> req[r].sess,
                                         status |-> "succeeded"]}
          /\ req' = [req EXCEPT ![r].pc = "cp_clear"]
     ELSE /\ payments' = payments
          /\ req' = [req EXCEPT ![r] = Finish(req[r], "payment_insert_raised")]
  /\ UNCHANGED <<stock, reservations, cartStatus, cartExpires, cartItems, orders,
                 orderItems, env, stockAtStart>>

\* a clearReservations that deletes nothing
clearReservationsKeepsRows(rs, cartId) == rs

\* lib/inventory: clearReservations
clearReservations(rs, cartId) == {x \in rs : x.cart_id # cartId}

CompletedClear(r) ==
  /\ req[r].pc = "cp_clear"
  /\ reservations' = clearReservations(reservations, req[r].cart)
  /\ req' = [req EXCEPT ![r] = Finish(req[r], "ok")]
  /\ UNCHANGED <<stock, cartStatus, cartExpires, cartItems, orders, orderItems,
                 payments, env, stockAtStart>>

\* ---- POST /webhooks: checkout.session.expired --------------------------------
\* the provider reports expiry of a session once the checkout request that
\* created it has returned
ExpiredDeliverable(s) == req[s.id].pc = "done"

ExpiredFindOrder(r, s) ==
  /\ Accept(r)
  /\ s \in sessions
  /\ ExpiredDeliverable(s)
  /\ LET rec == [NoReq EXCEPT !.kind = "expired", !.cart = s.cart_id, !.sess = s.id,
                             !.order = FindOrder(orders, s.id), !.ret = "ex_abandon"]
     IN req' = [req EXCEPT ![r] =
          [rec EXCEPT !.pc = IF rec.order = 0 THEN "restore_select" ELSE "ex_fail"]]
  /\ UNCHANGED <<db, env>>

ExpiredFailOrder(r) ==
  /\ req[r].pc = "ex_fail"
  /\ orders' = SetOrderStatus(orders, req[r].order, "failed")
  /\ req' = [req EXCEPT ![r].pc = "restore_select"]
  /\ UNCHANGED <<stock, reservations, cartStatus, cartExpires, cartItems, orderItems,
                 payments, env, stockAtStart>>

ExpiredAbandon(r) ==
  /\ req[r].pc = "ex_abandon"
  /\ cartStatus' = [cartStatus EXCEPT ![req[r].cart] = "abandoned"]
  /\ req' = [req EXCEPT ![r] = Finish(req[r], "ok")]
  /\ UNCHANGED <<stock, reservations, cartExpires, cartItems, orders, orderItems,
                 payments, env, stockAtStart>>

\* ---- POST /webhooks: the dispatch on the event type ----------------------------
\* event types the provider sends and the switch has no case for
OtherEventTypes == {"payment_intent.succeeded"}

\* a switch whose default branch runs the Expiration handler
WebhookSwitchDefaultExpired(type) ==
  IF type = "checkout.session.completed" THEN "completed" ELSE "expired"

\* switch (stripeEvent.type)
WebhookSwitch(type) ==
  IF type = "checkout.session.completed" THEN "completed"
  ELSE IF type = "checkout.session.expired" THEN "expired"
  ELSE "unhandled"

\* the request record after the switch dispatched an event of the given type
\* about object s
WebhookDispatch(rec, type, s) ==
  LET h == WebhookSwitch(type)
      obj == [rec EXCEPT !.cart = s.cart_id, !.sess = s.id,
                         !.order = FindOrder(orders, s.id)]
  IN IF h = "unhandled" THEN Finish(rec, "unhandled")
     ELSE IF h = "expired"
     THEN [obj EXCEPT !.ret = "ex_abandon",
                      !.pc = IF obj.order = 0 THEN "restore_select" ELSE "ex_fail"]
     ELSE IF obj.order = 0 THEN Finish(obj, "order_not_found")
     ELSE [obj EXCEPT !.pc = "cp_cart", !.intent = s.payment_intent]

\* a verified event of another type, about object s: default branch,
\* event.unhandled_event = stripeEvent.type, and the answer {received: true}
WebhookOther(r, type, s) ==
  /\ Accept(r)
  /\ req' = [req EXCEPT ![r] = WebhookDispatch([NoReq EXCEPT !.kind = "webhook"], type, s)]
  /\ UNCHANGED <<db, env>>

\* ---- POST /webhooks: signature verification --------------------------------------
\* the stripe-signature header of a request and the event types it may carry
Signatures == {"missing", "invalid", "valid"}
EventTypes == {"checkout.session.completed", "checkout.session.expired"} \cup OtherEventTypes

\* a verification in which constructEventAsync accepts every signature
WebhookVerifyTrusting(signature, secretConfigured) ==
  IF signature = "missing" THEN [status |-> 400, message |-> "Missing stripe-signature header"]
  ELSE IF ~secretConfigured THEN [status |-> 500, message |-> "Webhook secret not configured"]
  ELSE [status |-> 200, message |-> "verified"]

\* the checks before the switch: the header, c.env.STRIPE_WEBHOOK_SECRET, and
\* stripe.webhooks.constructEventAsync, which throws on a signature that does
\* not verify
WebhookVerify(signature, secretConfigured) ==
  IF signature = "missing" THEN [status |-> 400, message |-> "Missing stripe-signature header"]
  ELSE IF ~secretConfigured THEN [status |-> 500, message |-> "Webhook secret not configured"]
  ELSE IF signature # "valid" THEN [status |-> 400, message |-> "Invalid webhook signature"]
  ELSE [status |-> 200, message |-> "verified"]

\* a webhook request without a signature that verifies under a configured
\* secret, whatever event it claims to carry
WebhookUnverified(r, signature, secretConfigured) ==
  /\ Accept(r)
  /\ signature # "valid" \/ ~secretConfigured
  /\ LET checked == WebhookVerify(signature, secretConfigured)
         rec == [NoReq EXCEPT !.kind = "unverified"]
     IN IF checked.status # 200
        THEN req' = [req EXCEPT ![r] = Finish(rec, checked.message)]
        ELSE \E type \in EventTypes, s \in SessionObjects :
               req' = [req EXCEPT ![r] = WebhookDispatch(rec, type, s)]
  /\ UNCHANGED <<db, env>>

\* ---- GET /inventory/{variant_id} ------------------------------------------------
\* lib/inventory getReservedQuantity: COALESCE(SUM(reservations.quantity), 0)
getReservedQuantity(rs, v) == SumRows(rs, v)

\* lib/inventory getAvailableStock, and the response of the route:
\* available: inventory.stock_quantity - reserved_quantity
getAvailableStock(st, rs, v) ==
  [stock_quantity |-> st[v],
   reserved_quantity |-> getReservedQuantity(rs, v),
   available |-> st[v] - getReservedQuantity(rs, v)]

\* ---- DELETE /reservations/{reservation_id} -----------------------------------
ReservationIds == Reqs \X (1..2)

CancelSelect(r, id) ==
  /\ Accept(r)
  /\ LET found == {x \in reservations : x.id = id}
         rec == [NoReq EXCEPT !.kind = "cancel"]
     IN req' = [req EXCEPT ![r] =
          IF found = {} THEN Finish(rec, "reservation_not_found")
          ELSE [rec EXCEPT !.pc = "cn_tx", !.rows = found]]
  /\ UNCHANGED <<db, env>>

CancelTx(r) ==
  /\ req[r].pc = "cn_tx"
  /\ LET reservation == CHOOSE x \in req[r].rows : TRUE
     IN /\ stock' = [stock EXCEPT ![reservation.variant_id] = @ + reservation.quantity]
        /\ reservations' = {x \in reservations : x.id # reservation.id}
  /\ req' = [req EXCEPT ![r] = Finish(req[r], "ok")]
  /\ UNCHANGED <<cartStatus, cartExpires, cartItems, orders, orderItems, payments,
                 env, stockAtStart>>

\* ---- PATCH /inventory/{variant_id} -------------------------------------------
\* body.stock_quantity (schema: min 0) and body.adjust
SetQuantities == {0}
Adjustments == {-2, 1}

InventorySelect(r, v, body) ==
  /\ Accept(r)
  /\ req' = [req EXCEPT ![r] = [NoReq EXCEPT !.kind = "inventory", !.pc = "inv_update",
                                             !.cart = v, !.order = body.value,
                                             !.status = body.field]]
  /\ UNCHANGED <<db, env>>

\* a negative adjustment applied without its check
AdjustGuardAlways(cur, adjust) == TRUE

\* a check that also refuses to take exactly what is in stock
AdjustGuardOffByOne(cur, adjust) == cur > -adjust

\* gte(inventoryTable.stock_quantity, requiredStock), requiredStock = Math.abs(adjust)
AdjustGuard(cur, adjust) == cur >= -adjust

InventoryUpdate(r) ==
  /\ req[r].pc = "inv_update"
  /\ LET v == req[r].cart
         n == req[r].order
     IN IF req[r].status = "stock_quantity"
        THEN /\ stock' = [stock EXCEPT ![v] = n]
             /\ req' = [req EXCEPT ![r] = Finish(req[r], "ok")]
        ELSE IF n < 0 /\ ~AdjustGuard(stock[v], n)
        THEN /\ stock' = stock
             /\ req' = [req EXCEPT ![r] = Finish(req[r], "insufficient_stock")]
        ELSE /\ stock' = [stock EXCEPT ![v] = @ + n]
             /\ req' = [req EXCEPT ![r] = Finish(req[r], "ok")]
  /\ UNCHANGED <<reservations, cartStatus, cartExpires, cartItems, orders, orderItems,
                 payments, env, stockAtStart>>

\* ---- POST /cart/items ----------------------------------------------------------
\* variants.max_quantity (0: no limit) and the quantities a request asks for
max_quantity == [v \in Variants |-> 3]
Quantities == {1, 2}

\* cart.expires_at <= now
CartExpiredNow(expiresAt, t) == expiresAt <= t

\* the request body is kept in `items`
AddItemLoadCart(r, c, v, q) ==
  /\ Accept(r)
  /\ LET rec == [NoReq EXCEPT !.kind = "add_item", !.cart = c, !.items = <<Item(v, q)>>]
     IN req' = [req EXCEPT ![r] =
          IF CartExpiredNow(cartExpires[c], now) THEN Finish(rec, "cart_expired")
          ELSE [rec EXCEPT !.pc = "ai_select"]]
  /\ UNCHANGED <<db, env>>

\* variant.max_quantity && new_quantity > variant.max_quantity
ExceedsMax(v, n) == max_quantity[v] # 0 /\ n > max_quantity[v]

\* const [existingItem] = select ... where cart_id and variant_id: one of the
\* matching rows, in no stated order; then new_quantity and the limit, which
\* answers with the cart as it was loaded
AddItemSelectExisting(r) ==
  /\ req[r].pc = "ai_select"
  /\ LET rows == cartItems[req[r].cart]
         body == req[r].items[1]
         matching == {k \in 1..Len(rows) : rows[k].variant_id = body.variant_id}
     IN \E k \in (IF matching = {} THEN {0} ELSE matching) :
          LET new_quantity == IF k = 0 THEN body.quantity
                              ELSE rows[k].quantity + body.quantity
          IN req' = [req EXCEPT ![r] =
               IF ExceedsMax(body.variant_id, new_quantity)
               THEN Finish(req[r], "max_quantity")
               ELSE [req[r] EXCEPT !.pc = "ai_write", !.order = new_quantity,
                                   !.rows = IF k = 0 THEN {} ELSE {rows[k]}]]
  /\ UNCHANGED <<db, env, stockAtStart>>

\* update ... set quantity = new_quantity where id = existingItem.id, or the
\* insert of a new row; the cart is then read again for the response
AddItemWrite(r) ==
  /\ req[r].pc = "ai_write"
  /\ LET c == req[r].cart
         rows == cartItems[c]
         body == req[r].items[1]
     IN IF req[r].rows # {}
        THEN LET existingItem == CHOOSE x \in req[r].rows : TRUE
                 updated == {k \in 1..Len(rows) : rows[k].id = existingItem.id}
             IN /\ cartItems' = [cartItems EXCEPT ![c] =
                     [k \in 1..Len(rows) |->
                        IF k \in updated THEN [rows[k] EXCEPT !.quantity = req[r].order]
                        ELSE rows[k]]]
                /\ req' = [req EXCEPT ![r] =
                     Finish(req[r], IF updated = {} THEN "update_failed" ELSE "ok")]
        ELSE /\ cartItems' = [cartItems EXCEPT ![c] =
                  Append(rows, [id |-> RowId(r), variant_id |-> body.variant_id,
                                quantity |-> body.quantity])]
             /\ req' = [req EXCEPT ![r] = Finish(req[r], "ok")]
  /\ UNCHANGED <<stock, reservations, cartStatus, cartExpires, orders, orderItems,
                 payments, env, stockAtStart>>

\* ---- DELETE /cart/items/{cart_item_id} --------------------------------------------
\* the ids a request may name: the rows the carts start with and inserted rows
CartItemIds == Variants \cup {RowId(r) : r \in Reqs}

\* param.cart_item_id is kept in `status`
RemoveItemLoadCart(r, c, id) ==
  /\ Accept(r)
  /\ LET rec == [NoReq EXCEPT !.kind = "remove_item", !.cart = c, !.status = id]
     IN req' = [req EXCEPT ![r] =
          IF CartExpiredNow(cartExpires[c], now) THEN Finish(rec, "cart_expired")
          ELSE [rec EXCEPT !.pc = "ri_select"]]
  /\ UNCHANGED <<db, env>>

RemoveItemSelect(r) ==
  /\ req[r].pc = "ri_select"
  /\ LET rows == cartItems[req[r].cart]
         found == {rows[k] : k \in {j \in 1..Len(rows) : rows[j].id = req[r].status}}
     IN req' = [req EXCEPT ![r] =
          IF found = {} THEN Finish(req[r], "item_not_found")
          ELSE [req[r] EXCEPT !.pc = "ri_delete", !.rows = found]]
  /\ UNCHANGED <<db, env, stockAtStart>>

RemoveItemDelete(r) ==
  /\ req[r].pc = "ri_delete"
  /\ LET c == req[r].cart
         rows == cartItems[c]
         cart_item == CHOOSE x \in req[r].rows : TRUE
         deleted == {k \in 1..Len(rows) : rows[k].id = cart_item.id}
     IN /\ cartItems' = [cartItems EXCEPT ![c] =
             SelectSeq(rows, LAMBDA x : x.id # cart_item.id)]
        /\ req' = [req EXCEPT ![r] =
             Finish(req[r], IF deleted = {} THEN "deletion_failed" ELSE "ok")]
  /\ UNCHANGED <<stock, reservations, cartStatus, cartExpires, orders, orderItems,
                 payments, env, stockAtStart>>

\* ---- the clock -------------------------------------------------------------
Tick ==
  /\ Quiescent
  /\ now < MaxTime
  /\ now' = now + 1
  /\ UNCHANGED <<db, sessions, req, initStock, stockAtStart, overlap, limit>>

\* ---- specification -----------------------------------------------------------
\* a two-item cart and a one-item cart that compete for unit B
Catalogue ==
  [stock |-> [v \in Variants |-> 2],
   items |-> [c \in Carts |-> IF c = "c1" THEN <<Item("A", 1), Item("B", 2)>>
                              ELSE <<Item("B", 1)>>],
   expires |-> [c \in Carts |-> HoldTicks]]

\* the same carts with one more of each unit in stock: after the two-item cart
\* reserved, the one-item cart still finds its unit
Ample ==
  [stock |-> [v \in Variants |-> 3],
   items |-> Catalogue.items,
   expires |-> Catalogue.expires]

\* a one-item cart that expires with the first tick and an empty cart
Stale ==
  [stock |-> [v \in Variants |-> 2],
   items |-> [c \in Carts |-> IF c = "c1" THEN <<Item("B", 1)>> ELSE <<>>],
   expires |-> [c \in Carts |-> 0]]

\* a cart with one of unit A and an empty cart
Basket ==
  [stock |-> [v \in Variants |-> 3],
   items |-> [c \in Carts |-> IF c = "c1" THEN <<Item("A", 1)>> ELSE <<>>],
   expires |-> [c \in Carts |-> HoldTicks]]

\* unit B has no inventory record; one cart asks for A and B, the other for A
Unlisted ==
  [stock |-> [v \in {"A"} |-> 2],
   items |-> [c \in Carts |-> IF c = "c1" THEN <<Item("A", 1), Item("B", 1)>>
                              ELSE <<Item("A", 1)>>],
   expires |-> [c \in Carts |-> HoldTicks]]

\* unit A has stock 5 and both carts ask for 3 of it
Race ==
  [stock |-> [v \in Variants |-> IF v = "A" THEN 5 ELSE 0],
   items |-> [c \in Carts |-> <<Item("A", 3)>>],
   expires |-> [c \in Carts |-> HoldTicks]]

InitWith(s, ov, n) ==
  /\ stock = s.stock
  /\ initStock = s.stock
  /\ stockAtStart = s.stock
  /\ cartItems = s.items
  /\ reservations = {}
  /\ cartStatus = [c \in Carts |-> "active"]
  /\ cartExpires = s.expires
  /\ orders = {}
  /\ orderItems = {}
  /\ payments = {}
  /\ sessions = {}
  /\ req = [r \in Reqs |-> NoReq]
  /\ now = 0
  /\ overlap = ov
  /\ limit = n

Init == InitWith(Catalogue, TRUE, MaxReq)
InitLong == InitWith(Catalogue, TRUE, MaxReq + 1)
InitSeq == InitWith(Catalogue, FALSE, MaxReq + 1)
InitRace == InitWith(Race, TRUE, MaxReq)
InitAmple == InitWith(Ample, TRUE, MaxReq)
InitStale == InitWith(Stale, FALSE, MaxReq + 1)
InitStaleLong == InitWith(Stale, TRUE, MaxReq + 1)
InitCart == InitWith(Basket, TRUE, MaxReq + 1)
InitUnlisted == InitWith(Unlisted, TRUE, MaxReq)
InitUnverified == InitWith(Stale, TRUE, MaxReq)
InitFault == InitWith(Catalogue, FALSE, MaxReq + 1)

Next ==
  \/ \E r \in Reqs, c \in Carts : CheckoutLoadCart(r, c)
  \/ \E r \in Reqs : CheckoutRefreshExpiry(r)
  \/ \E r \in Reqs : CheckoutPrecheck(r)
  \/ \E r \in Reqs : CheckoutReserve(r)
  \/ \E r \in Reqs : CheckoutCreateSession(r)
  \/ \E r \in Reqs : CheckoutMarkOrdered(r)
  \/ \E r \in Reqs : CheckoutInsertOrder(r)
  \/ \E r \in Reqs : RestoreSelect(r)
  \/ \E r \in Reqs : RestoreTx(r)
  \/ \E r \in Reqs, s \in SessionObjects : CompletedFindOrder(r, s)
  \/ \E r \in Reqs : CompletedLoadCart(r)
  \/ \E r \in Reqs : CompletedUpdateOrder(r)
  \/ \E r \in Reqs : CompletedInsertItems(r)
  \/ \E r \in Reqs : CompletedInsertPayment(r)
  \/ \E r \in Reqs : CompletedClear(r)
  \/ \E r \in Reqs, s \in SessionObjects : ExpiredFindOrder(r, s)
  \/ \E r \in Reqs : ExpiredFailOrder(r)
  \/ \E r \in Reqs : ExpiredAbandon(r)
  \/ \E r \in Reqs, id \in ReservationIds : CancelSelect(r, id)
  \/ \E r \in Reqs : CancelTx(r)
  \/ \E r \in Reqs, v \in Variants, q \in SetQuantities :
       InventorySelect(r, v, [field |-> "stock_quantity", value |-> q])
  \/ \E r \in Reqs, v \in Variants, a \in Adjustments :
       InventorySelect(r, v, [field |-> "adjust", value |-> a])
  \/ \E r \in Reqs : InventoryUpdate(r)
  \/ Tick

\* MaxReq overlapping requests
Spec == Init /\ [][Next]_vars
\* one request more
SpecLong == InitLong /\ [][Next]_vars
\* requests handled one at a time
SpecSeq == InitSeq /\ [][Next]_vars
\* MaxReq overlapping requests on the larger stock
SpecAmple == InitAmple /\ [][Next]_vars
\* requests handled one at a time, with a cart about to expire and an empty cart
SpecStale == InitStale /\ [][Next]_vars

\* the checkout requests alone: the race for stock between shoppers
NextRace ==
  \/ \E r \in Reqs, c \in Carts : CheckoutLoadCart(r, c)
  \/ \E r \in Reqs : CheckoutRefreshExpiry(r)
  \/ \E r \in Reqs : CheckoutPrecheck(r)
  \/ \E r \in Reqs : CheckoutReserve(r)
  \/ \E r \in Reqs : CheckoutCreateSession(r)
  \/ \E r \in Reqs : CheckoutMarkOrdered(r)
  \/ \E r \in Reqs : CheckoutInsertOrder(r)
  \/ \E r \in Reqs : RestoreSelect(r)
  \/ \E r \in Reqs : RestoreTx(r)
  \/ Tick

SpecRace == InitRace /\ [][NextRace]_vars
\* the checkout requests when a unit in a cart has no inventory record
SpecUnlisted == InitUnlisted /\ [][NextRace]_vars

\* the checkout requests, the Completion notifications of their sessions and
\* the notifications of other types
NextCompletion ==
  \/ NextRace
  \/ \E r \in Reqs, s \in SessionObjects : CompletedFindOrder(r, s)
  \/ \E r \in Reqs : CompletedLoadCart(r)
  \/ \E r \in Reqs : CompletedUpdateOrder(r)
  \/ \E r \in Reqs : CompletedInsertItems(r)
  \/ \E r \in Reqs : CompletedInsertPayment(r)
  \/ \E r \in Reqs : CompletedClear(r)
  \/ \E r \in Reqs, t \in OtherEventTypes, s \in SessionObjects : WebhookOther(r, t, s)

SpecCompletion == InitStaleLong /\ [][NextCompletion]_vars

\* the shopper's requests on the cart, the checkout requests and the Completion
\* notifications of their sessions
NextCart ==
  \/ NextRace
  \/ \E r \in Reqs, s \in SessionObjects : CompletedFindOrder(r, s)
  \/ \E r \in Reqs : CompletedLoadCart(r)
  \/ \E r \in Reqs : CompletedUpdateOrder(r)
  \/ \E r \in Reqs : CompletedInsertItems(r)
  \/ \E r \in Reqs : CompletedInsertPayment(r)
  \/ \E r \in Reqs : CompletedClear(r)
  \/ \E r \in Reqs, c \in Carts, v \in Variants, q \in Quantities : AddItemLoadCart(r, c, v, q)
  \/ \E r \in Reqs : AddItemSelectExisting(r)
  \/ \E r \in Reqs : AddItemWrite(r)
  \/ \E r \in Reqs, c \in Carts, id \in CartItemIds : RemoveItemLoadCart(r, c, id)
  \/ \E r \in Reqs : RemoveItemSelect(r)
  \/ \E r \in Reqs : RemoveItemDelete(r)

SpecCart == InitCart /\ [][NextCart]_vars

\* the checkout requests, one at a time, with a database that may fail the
\* insert of the Order
NextFault ==
  \/ NextRace
  \/ \E r \in Reqs : CheckoutInsertOrderRaises(r)

SpecFault == InitFault /\ [][NextFault]_vars

\* the checkout requests and webhook requests that do not verify
NextUnverified ==
  \/ NextRace
  \/ \E r \in Reqs, g \in Signatures, k \in BOOLEAN : WebhookUnverified(r, g, k)

SpecUnverified == InitUnverified /\ [][NextUnverified]_vars

TypeOK ==
  /\ DOMAIN stock \subseteq Variants
  /\ \A v \in DOMAIN stock : stock[v] \in Int
  /\ \A r \in Reqs : req[r].pc \in {"idle", "done", "co_refresh", "co_precheck", "co_reserve",
                                     "co_session", "co_mark", "co_insert", "restore_select",
                                     "restore_tx", "cp_cart", "cp_update", "cp_items",
                                     "cp_payment", "cp_clear", "ex_fail", "ex_abandon",
                                     "cn_tx", "inv_update", "ai_select", "ai_write",
                                     "ri_select", "ri_delete"}
\* ---- properties ----------------------------------------------------------------
Accepted(r) == req[r].kind # "none"
Done(r) == req[r].pc = "done"
RowsOfCart(c) == {x \in reservations : x.cart_id = c}
RowsOfRequest(r) == {x \in reservations : x.id[1] = r}
NoInventoryEdit == \A r \in Reqs : req[r].kind # "inventory"
\* the outcomes of a checkout whose reserveStock found a unit short
ReserveRefusals == {"reserve_raised", "stock_changed"}

\* C1: the stock_quantity of every inventory record is >= 0 in every reachable
\* state, under any interleaving of reservations, releases, reservation
\* cancellations and inventory updates.
C1_StockNeverNegative == \A v \in Variants : stock[v] >= 0

\* a unit is sold out while a reservation of it is held, after an inventory
\* update has been applied
C1_Witness ==
  \E v \in Variants :
    /\ stock[v] = 0
    /\ \E x \in reservations : x.variant_id = v
    /\ \E r \in Reqs : req[r].kind = "inventory" /\ Done(r) /\ req[r].outcome = "ok"

\* the two checkouts of the race: requests 1 and 2, on different carts, are the
\* only requests, both have returned, and each either went through or was
\* refused for stock
RaceOver ==
  /\ \A r \in Reqs : IF r <= 2 THEN req[r].kind = "checkout" /\ Done(r) ELSE ~Accepted(r)
  /\ req[1].cart # req[2].cart
  /\ \A r \in {1, 2} : req[r].outcome \in {"ok", "insufficient_stock"} \cup ReserveRefusals

\* C2: unit A has stock 5 and two carts each ask for 3 of A: for every
\* interleaving of the two checkouts exactly one succeeds and holds a
\* reservation of 3, the other is rejected and holds none, and the final stock
\* of A is 2.
C2_ExactlyOneWins ==
  RaceOver =>
    \E w \in {1, 2} :
      LET l == 3 - w IN
      /\ req[w].outcome = "ok"
      /\ req[l].outcome # "ok"
      /\ \E x \in reservations :
           /\ RowsOfCart(req[w].cart) = {x}
           /\ x.variant_id = "A" /\ x.quantity = 3
      /\ RowsOfCart(req[l].cart) = {}
      /\ stock["A"] = 2

\* both checkouts passed the read-only check and the conditional decrement
\* refused the second
C2_Witness == RaceOver /\ \E r \in {1, 2} : req[r].outcome \in ReserveRefusals

\* C3: reserveStock is all-or-nothing: when the decrement of some item fails,
\* stock and reservations are as before the call; when every decrement succeeds
\* there is exactly one new reservation row per item, all of the cart and with
\* the same expiry, and stock is decremented by the items' quantities.
C3_ReserveAllOrNothing ==
  [][\A r \in Reqs :
       (req[r].pc = "co_reserve" /\ req'[r].pc # "co_reserve") =>
         IF req'[r].pc = "done"
         THEN /\ req'[r].outcome \in ReserveRefusals
              /\ stock' = stock
              /\ reservations' = reservations
         ELSE LET new == reservations' \ reservations
                  items == req[r].items
              IN /\ reservations \subseteq reservations'
                 /\ Cardinality(new) = Len(items)
                 /\ \A k \in 1..Len(items) :
                      \E x \in new : /\ x.id = <<r, k>>
                                     /\ x.cart_id = req[r].cart
                                     /\ x.variant_id = items[k].variant_id
                                     /\ x.quantity = items[k].quantity
                 /\ \A x, y \in new : x.expires_at = y.expires_at
                 /\ \A v \in Variants : stock'[v] = stock[v] - SumItems(items, 1, v)]_vars

\* the two-item cart was refused at its second item (no inventory update ran, so
\* its first item was available), and another checkout of it reserved both items
C3_Witness ==
  /\ NoInventoryEdit
  /\ \E r \in Reqs : /\ req[r].kind = "checkout" /\ Done(r)
                     /\ req[r].outcome \in ReserveRefusals
                     /\ Len(cartItems[req[r].cart]) = 2
  /\ \E r \in Reqs : Cardinality(RowsOfRequest(r)) = 2
OrderOfSession(sessionId) == CHOOSE o \in orders : o.stripe_checkout_session_id = sessionId
ItemsOfOrder(orderId) == {x \in orderItems : x.order_id = orderId}
PaymentsOfOrder(orderId) == {p \in payments : p.order_id = orderId}
LastAccepted(r) == Accepted(r) /\ \A q \in Reqs : q > r => ~Accepted(q)

\* r1 and r2 are two handled Completion notifications of one session that has
\* an Order, and no Expiration notification of that session was accepted
DuplicateCompletion(r1, r2) ==
  /\ r1 < r2
  /\ req[r1].kind = "completed" /\ Done(r1)
  /\ req[r2].kind = "completed" /\ Done(r2)
  /\ req[r1].sess = req[r2].sess
  /\ req[r1].outcome # "order_not_found"
  /\ \A q \in Reqs : req[q].kind = "expired" => req[q].sess # req[r1].sess

\* C4: handling the Completion notification of a session a second time leaves
\* the state a single handling produces: the Order is paid, with one set of
\* order items and one payment record, stock is untouched, and the second
\* handling does not fail.
C4_CompletionIdempotent ==
  \A r1, r2 \in Reqs :
    DuplicateCompletion(r1, r2) =>
      LET o == OrderOfSession(req[r1].sess) IN
      /\ o.status = "paid"
      /\ Cardinality(ItemsOfOrder(o.id)) = Len(o.reserved)
      /\ Cardinality(PaymentsOfOrder(o.id)) <= 1
      /\ req[r2].outcome = "ok"
      /\ LastAccepted(r2) => stock = stockAtStart

\* C5: an Order leaves `pending` at most once through settlement: a paid Order
\* is never set to failed and a failed Order is never set to paid.
C5_OneTerminalTransition ==
  [][\A o \in orders : \A n \in orders' :
       n.id = o.id =>
         /\ ~(o.status = "paid" /\ n.status = "failed")
         /\ ~(o.status = "failed" /\ n.status = "paid")]_vars

RECURSIVE PaidQuantity(_, _)
\* quantity of a unit reserved at checkout by the carts whose Order is paid
PaidQuantity(os, v) ==
  IF os = {} THEN 0
  ELSE LET o == CHOOSE x \in os : TRUE
       IN (IF o.status = "paid" THEN SumItems(o.reserved, 1, v) ELSE 0)
          + PaidQuantity(os \ {o}, v)

\* no administrative request (inventory update, reservation cancellation) ran
NoAdminRequest == \A r \in Reqs : req[r].kind \notin {"inventory", "cancel"}

\* no cart was checked out by more than one request
OneCheckoutPerCart ==
  \A r1, r2 \in Reqs :
    (req[r1].kind = "checkout" /\ req[r2].kind = "checkout" /\ r1 # r2) =>
      req[r1].cart # req[r2].cart

\* C6: a sale is reflected in stock exactly once: with no request in flight and
\* no administrative request, stock + live reservations + quantities reserved
\* by carts whose Order is paid equals the initial stock of every unit, whatever
\* Completion and Expiration notifications were handled (stated for carts
\* checked out once).
C6_SaleCountedOnce ==
  (Quiescent /\ NoAdminRequest /\ OneCheckoutPerCart) =>
    \A v \in Variants :
      stock[v] + SumRows(reservations, v) + PaidQuantity(orders, v) = initStock[v]

SessionFailed(r) ==
  /\ req[r].kind = "checkout" /\ Done(r)
  /\ req[r].outcome \in {"session_failed", "session_no_url"}

\* C7: when creating the remote session throws or yields no redirect URL after
\* reserveStock succeeded, then at the return of the checkout request the stock
\* of every unit is what it was before the request, the cart has no reservation
\* row and no Order was created.
C7_SessionFailureCompensated ==
  \A r \in Reqs :
    (SessionFailed(r) /\ LastAccepted(r)) =>
      /\ stock = stockAtStart
      /\ RowsOfCart(req[r].cart) = {}
      /\ \A o \in orders : o.cart_id # req[r].cart

\* a checkout of the two-item cart ended on a failed session; before it other
\* requests had moved stock away from its initial value
C7_Witness ==
  \E r \in Reqs :
    /\ SessionFailed(r) /\ LastAccepted(r)
    /\ Len(cartItems[req[r].cart]) = 2
    /\ stock # initStock

\* C8: when marking the cart ordered or inserting the pending Order fails, by
\* returning no row or by raising, the reservations taken by the checkout are
\* released before the error leaves the handler.
C8_PersistenceFailureReleases ==
  \A r \in Reqs :
    (req[r].kind = "checkout" /\ Done(r) /\ req[r].outcome = "order_insert_raised") =>
      RowsOfRequest(r) = {}

\* C9: with no request in flight, every reservation row belongs to a cart that
\* has an Order in state pending carrying a remote session id.
C9_ReservationHasPendingOrder ==
  Quiescent =>
    \A x \in reservations :
      \E o \in orders : /\ o.cart_id = x.cart_id
                        /\ o.status = "pending"
                        /\ o.stripe_checkout_session_id # 0

\* one checkout went through and every later request is an Expiration
\* notification; all have been handled, at least one of them
OnlyExpirations ==
  /\ req[1].kind = "checkout" /\ req[1].outcome = "ok"
  /\ \A r \in Reqs : r > 1 => req[r].kind \in {"none", "expired"}
  /\ \E r \in Reqs : req[r].kind = "expired"
  /\ Quiescent

\* C10: any number of Expiration notifications of one session, sequential or
\* concurrent, give the reserved quantities back to stock exactly once, delete
\* the cart's reservations, leave the Order failed and the cart abandoned.
C10_ExpirationIdempotent ==
  OnlyExpirations =>
    /\ stock = initStock
    /\ RowsOfCart(req[1].cart) = {}
    /\ OrderOfSession(req[1].sess).status = "failed"
    /\ cartStatus[req[1].cart] = "abandoned"

\* an Expiration notification has been handled and no request came after it
ExpirationHandled(r) == req[r].kind = "expired" /\ Done(r) /\ LastAccepted(r)

\* C11: an Expiration notification carrying a cart id always releases the
\* cart's reservations and abandons the cart, with or without an Order of its
\* session, and an Order of its session ends failed: when the handler returns
\* the cart has no reservation row, is abandoned and the Order, if any, is
\* failed; while it runs the quantities it takes from the reservations go to
\* stock (stock + reserved of every unit is kept).
C11_ExpirationReleases ==
  /\ [](\A r \in Reqs :
         ExpirationHandled(r) =>
           /\ req[r].outcome = "ok"
           /\ RowsOfCart(req[r].cart) = {}
           /\ cartStatus[req[r].cart] = "abandoned"
           /\ \A o \in orders :
                o.stripe_checkout_session_id = req[r].sess => o.status = "failed")
  /\ [][\A r \in Reqs :
          (req[r].kind = "expired" /\ InFlight(r)) =>
            \A v \in Variants :
              stock'[v] + SumRows(reservations', v) = stock[v] + SumRows(reservations, v)]_vars

\* an Expiration found the pending Order of its session and gave the reserved
\* quantities of the two-item cart back: stock has moved since it was accepted
C11_Witness ==
  \E r \in Reqs :
    /\ ExpirationHandled(r)
    /\ \E o \in orders : o.stripe_checkout_session_id = req[r].sess /\ Len(o.reserved) = 2
    /\ stock # stockAtStart

\* the step that accepts, as request r, a Completion notification of a session
\* no Order carries
CompletionWithoutOrder(r) ==
  /\ req[r].pc = "idle"
  /\ req'[r].kind = "completed"
  /\ \A o \in orders : o.stripe_checkout_session_id # req'[r].sess

OneNotificationPerSession ==
  \A r1, r2 \in Reqs :
    (r1 # r2 /\ req[r1].kind \in {"completed", "expired"}
             /\ req[r2].kind \in {"completed", "expired"}) => req[r1].sess # req[r2].sess

\* the session of an Order carries a payment intent
HasPaymentIntent(o) ==
  \E s \in sessions : s.id = o.stripe_checkout_session_id /\ s.payment_intent

\* C13: settlement is atomic: no state shows a part of one Completion or of
\* one Expiration.  With one notification per session, one checkout per cart
\* and no administrative request, an Order is pending with nothing settled,
\* or paid with its order items, its payment record (when the session has a
\* payment intent) and the reservations of its cart cleared, or failed with
\* the reservations of its cart released and the cart abandoned.
C13_SettlementAtomic ==
  (OneNotificationPerSession /\ OneCheckoutPerCart /\ NoAdminRequest) =>
    \A o \in orders :
      /\ o.status = "pending" =>
           /\ ItemsOfOrder(o.id) = {}
           /\ PaymentsOfOrder(o.id) = {}
      /\ o.status = "paid" =>
           /\ Cardinality(ItemsOfOrder(o.id)) = Len(o.reserved)
           /\ HasPaymentIntent(o) => PaymentsOfOrder(o.id) # {}
           /\ RowsOfCart(o.cart_id) = {}
      /\ o.status = "failed" =>
           /\ RowsOfCart(o.cart_id) = {}
           /\ cartStatus[o.cart_id] = "abandoned"

\* C14: when a conditional decrement inside reserveStock finds the stock
\* insufficient, reserveStock returns the declined result {success: false,
\* failed_variant_id} instead of raising, and the checkout answers with its
\* "Stock changed, please try again" client error: no checkout ends on an
\* exception raised by reserveStock (stated for carts checked out once).
C14_DeclinedNotRaised ==
  \A r \in Reqs :
    (req[r].kind = "checkout" /\ Done(r) /\ req[r].outcome \in ReserveRefusals
       /\ OneCheckoutPerCart) =>
      req[r].outcome = "stock_changed"

\* what a checkout must leave alone when it is rejected
CheckoutFrame == <<stock, reservations, sessions, orders, cartStatus>>

\* C15: checkout is accepted only for a cart that is non-empty, not expired and
\* in status active.  The request reads the cart once: it is rejected on the
\* spot exactly when the cart is empty or expired, and right after the expiry
\* refresh exactly when the status it read is not active; the steps up to the
\* rejection change no stock, reservation, remote session, Order or cart
\* status, and only a request that passed the three checks goes on to the
\* stock check.
C15_CheckoutPreconditions ==
  [][\A r \in Reqs :
       /\ (req[r].pc = "idle" /\ req'[r].kind = "checkout") =>
            LET c == req'[r].cart IN
            /\ UNCHANGED CheckoutFrame
            /\ (Len(cartItems[c]) = 0 \/ cartExpires[c] < now) <=> (req'[r].pc = "done")
            /\ req'[r].pc = "done" => req'[r].outcome \in {"cart_empty", "cart_expired"}
            /\ req'[r].pc # "done" => /\ req'[r].pc = "co_refresh"
                                      /\ req'[r].status = cartStatus[c]
       /\ (req[r].pc = "co_refresh" /\ req'[r].pc # "co_refresh") =>
            /\ UNCHANGED CheckoutFrame
            /\ (req[r].status # "active") <=> (req'[r].pc = "done")
            /\ req'[r].pc = "done" => req'[r].outcome = "already_checked_out"
            /\ req'[r].pc # "done" => req'[r].pc = "co_precheck"]_vars

\* an empty cart was refused, and a cart already ordered was refused while its
\* reservation was held
C15_Witness ==
  /\ \E r \in Reqs : req[r].kind = "checkout" /\ req[r].outcome = "cart_empty"
  /\ \E r \in Reqs : /\ req[r].kind = "checkout" /\ req[r].outcome = "already_checked_out"
                     /\ cartStatus[req[r].cart] = "ordered"
                     /\ RowsOfCart(req[r].cart) # {}

\* the reservations of cart c cover every item of the cart
ReservedForAllItems(c) ==
  \A k \in 1..Len(cartItems[c]) :
    \E x \in RowsOfCart(c) : /\ x.variant_id = cartItems[c][k].variant_id
                              /\ x.quantity = cartItems[c][k].quantity

\* C16: a cart becomes ordered only in a state where reservations exist for
\* all of its items and a remote payment session has been created for it
\* (stated for runs without administrative requests).
C16_OrderedOnlyWhenReserved ==
  [][\A c \in Carts :
       (cartStatus[c] # "ordered" /\ cartStatus'[c] = "ordered" /\ NoAdminRequest) =>
         /\ ReservedForAllItems(c)
         /\ \E s \in sessions : s.cart_id = c /\ s.url]_vars

\* C17: when reserveStock fails during checkout, no remote payment session is
\* created and nothing persists from the attempt except the refreshed cart
\* expiry: no step of the request up to and including the failed reserveStock
\* changes stock, reservations, cart status, orders or sessions (only the
\* refresh step changes the cart expiry), the request ends at the failure, and
\* no session of the request ever exists.
C17_ReserveFailureFrame ==
  /\ [][\A r \in Reqs :
          /\ (req'[r] # req[r] /\ req'[r].kind = "checkout"
                /\ req[r].pc \in {"idle", "co_refresh", "co_precheck"}) =>
               /\ UNCHANGED CheckoutFrame
               /\ req[r].pc # "co_refresh" => UNCHANGED cartExpires
          /\ (req[r].pc = "co_reserve" /\ req'[r].pc = "done") =>
               /\ req'[r].outcome \in ReserveRefusals
               /\ UNCHANGED <<CheckoutFrame, cartExpires, orderItems, payments>>
          /\ (req[r].pc = "co_reserve" /\ req'[r].pc # "co_reserve"
                /\ \E k \in 1..Len(req[r].items) :
                     stock[req[r].items[k].variant_id]
                       < SumItems(req[r].items, 1, req[r].items[k].variant_id)) =>
               req'[r].pc = "done"]_vars
  /\ [](\A r \in Reqs :
         req[r].outcome \in ReserveRefusals => \A s \in sessions : s.id # r)

\* the checkout of the two-item cart failed in reserveStock at its second item
\* after the other cart had reserved that unit; the cart is still active
C17_Witness ==
  \E r \in Reqs :
    /\ req[r].kind = "checkout" /\ req[r].outcome \in ReserveRefusals
    /\ Len(cartItems[req[r].cart]) = 2
    /\ cartStatus[req[r].cart] = "active"
    /\ \E x \in reservations : x.cart_id # req[r].cart
    /\ \A v \in Variants : stock[v] + SumRows(reservations, v) = initStock[v]

\* request r leaves the read-only stock check of checkout
PrecheckDone(r) == req[r].pc = "co_precheck" /\ req'[r].pc # "co_precheck"

\* some line item of request r asks for more than `have` holds of its unit
Shortfall(r, have) ==
  \E k \in 1..Len(req[r].items) :
    req[r].items[k].quantity > have[req[r].items[k].variant_id]

\* what the read-only check leaves alone, and where it sits in the request
PrecheckFrame(r) ==
  /\ req'[r].pc = "done" => /\ req'[r].outcome = "insufficient_stock"
                            /\ UNCHANGED <<stock, reservations>>
                            /\ RowsOfRequest(r) = {}
  /\ req'[r].pc # "done" => req'[r].pc = "co_reserve"

\* C18 as stated: the read-only check of checkout rejects the request, before
\* any reservation is attempted, exactly when some line item asks for more
\* than the available quantity of its unit, available = stock - reserved; the
\* rejection changes no stock and creates no reservation.
C18_PrecheckUsesAvailable ==
  [][\A r \in Reqs :
       PrecheckDone(r) =>
         /\ (req'[r].pc = "done") <=>
              Shortfall(r, [v \in Variants |->
                              getAvailableStock(stock, reservations, v).available])
         /\ PrecheckFrame(r)]_vars

\* C18 amended: the read-only check rejects exactly when some line item asks
\* for more than the stock_quantity of its unit (which reserveStock has already
\* reduced by the live reservations); the rejection changes no stock and
\* creates no reservation, and the request has attempted none before.
C18_PrecheckUsesStock ==
  [][\A r \in Reqs :
       PrecheckDone(r) =>
         /\ (req'[r].pc = "done") <=> Shortfall(r, stock)
         /\ PrecheckFrame(r)]_vars

\* a checkout has passed the read-only check for a unit in stock whose
\* stock_quantity - reserved is below the quantity asked
C18_Witness ==
  \E r \in Reqs :
    /\ req[r].pc = "co_reserve"
    /\ ~Shortfall(r, stock)
    /\ Shortfall(r, [v \in Variants |->
                       getAvailableStock(stock, reservations, v).available])

\* C19: the `available` value of the inventory read is the quantity still
\* available for purchase: a checkout asking q of a unit reserves it exactly
\* when q <= available, available being stock_quantity minus the sum of the
\* unit's live reservations (stated for the reserveStock of a one-item cart,
\* against the inventory read of the state in which it runs).
C19_AvailableIsPurchasable ==
  [][\A r \in Reqs :
       (req[r].pc = "co_reserve" /\ req'[r].pc # "co_reserve" /\ Len(req[r].items) = 1) =>
         LET item == req[r].items[1]
             read == getAvailableStock(stock, reservations, item.variant_id)
         IN /\ read.available = stock[item.variant_id] - SumRows(reservations, item.variant_id)
            /\ (req'[r].pc = "co_session") <=> (item.quantity <= read.available)]_vars

\* a step the program takes on its own: the next statement of a request being
\* handled (no new request, notification or administrative call comes in)
ProgramStep ==
  \E r \in Reqs :
    \/ CheckoutRefreshExpiry(r) \/ CheckoutPrecheck(r) \/ CheckoutReserve(r)
    \/ CheckoutCreateSession(r) \/ CheckoutMarkOrdered(r) \/ CheckoutInsertOrder(r)
    \/ RestoreSelect(r) \/ RestoreTx(r)
    \/ CompletedLoadCart(r) \/ CompletedUpdateOrder(r) \/ CompletedInsertItems(r)
    \/ CompletedInsertPayment(r) \/ CompletedClear(r)
    \/ ExpiredFailOrder(r) \/ ExpiredAbandon(r)
    \/ CancelTx(r) \/ InventoryUpdate(r)

\* the expiry of reservation x has passed (expires_at <= now, as the cart
\* routes read an expiry) and no settlement notification came for its cart
ExpiredUnsettled(x) ==
  /\ x.expires_at <= now
  /\ \A r \in Reqs : req[r].kind \in {"completed", "expired"} => req[r].cart # x.cart_id

\* C20: every reservation whose expires_at has passed without a settlement
\* notification is eventually released (its quantity back in stock, its row
\* gone) without administrative action: while such a reservation exists the
\* program has a step of its own left to take.
C20_ExpiredReservationSwept ==
  \A x \in reservations : ExpiredUnsettled(x) => ENABLED ProgramStep

\* one checkout went through and every later request is an administrative
\* cancellation of a reservation; all have been handled, at least one of them
\* deleted a reservation
OnlyCancellations ==
  /\ req[1].kind = "checkout" /\ req[1].outcome = "ok"
  /\ \A r \in Reqs : r > 1 => req[r].kind \in {"none", "cancel"}
  /\ \E r \in Reqs : req[r].kind = "cancel" /\ req[r].outcome = "ok"
  /\ Quiescent

\* C21: cancelling a reservation gives exactly its quantity back to stock and
\* deletes it, also when two cancellations of the same reservation race: after
\* one checkout and any cancellations of its reservations, what is in stock and
\* what is still reserved add up to the initial stock of every unit.
C21_CancellationCountedOnce ==
  OnlyCancellations =>
    \A v \in Variants : stock[v] + SumRows(reservations, v) = initStock[v]

\* C22: a negative adjust succeeds exactly when the stock at the moment of the
\* update is at least |adjust|, and then lowers the stock by |adjust| in that same
\* step; a rejected adjust leaves stock and reservations as they are, also
\* while checkouts are reserving.
C22_NegativeAdjustAtomic ==
  [][\A r \in Reqs :
       (/\ req[r].pc = "inv_update" /\ req'[r].pc = "done"
        /\ req[r].status = "adjust" /\ req[r].order < 0) =>
         LET v == req[r].cart
             n == req[r].order
         IN /\ req'[r].outcome = "ok" <=> stock[v] >= -n
            /\ req'[r].outcome = "ok" => stock' = [stock EXCEPT ![v] = @ + n]
            /\ req'[r].outcome # "ok" =>
                 /\ req'[r].outcome = "insufficient_stock"
                 /\ stock' = stock
                 /\ reservations' = reservations]_vars

\* a negative adjust was refused for a unit of which a checkout that is still
\* running has reserved a part
C22_Witness ==
  /\ \E r \in Reqs : /\ req[r].kind = "inventory" /\ Done(r)
                     /\ req[r].outcome = "insufficient_stock"
  /\ \E r \in Reqs : req[r].kind = "checkout" /\ InFlight(r) /\ RowsOfRequest(r) # {}

\* C23: in every reachable state there is at most one Order per cart and at most
\* one per session id, and every Order a checkout creates starts pending and
\* carries the id of the session that this checkout created for its cart, also
\* when checkouts of one cart overlap.
C23_OneOrderPerCart ==
  /\ [](\A o1, o2 \in orders :
          (\/ o1.cart_id = o2.cart_id
           \/ o1.stripe_checkout_session_id = o2.stripe_checkout_session_id) => o1 = o2)
  /\ [][\A n \in orders' :
          (\A o \in orders : o.id # n.id) =>
            /\ n.status = "pending"
            /\ \E r \in Reqs :
                 /\ req[r].kind = "checkout" /\ req[r].pc = "co_insert"
                 /\ req'[r].pc = "done" /\ req'[r].outcome = "ok"
                 /\ n.cart_id = req[r].cart
                 /\ n.stripe_checkout_session_id = r
                 /\ \E s \in sessions : s.id = r /\ s.cart_id = n.cart_id /\ s.url]_vars

\* two checkouts of one cart both reserved and both created a session; the
\* first inserted the Order and the insert of the second was refused
C23_Witness ==
  \E r1, r2 \in Reqs :
    /\ r1 # r2
    /\ req[r1].kind = "checkout" /\ req[r1].outcome = "ok"
    /\ req[r2].kind = "checkout" /\ req[r2].outcome = "order_insert_raised"
    /\ req[r1].cart = req[r2].cart
    /\ \E o \in orders : o.cart_id = req[r1].cart /\ o.stripe_checkout_session_id = r1

\* C24: the status of a cart only moves forward, active -> ordered -> abandoned:
\* no step returns a cart to active and no step moves an abandoned cart to
\* ordered.
C24_CartStatusForward ==
  [][\A c \in Carts :
       /\ cartStatus[c] # "active" => cartStatus'[c] # "active"
       /\ ~(cartStatus[c] = "abandoned" /\ cartStatus'[c] = "ordered")]_vars

\* C25: a webhook event of a type other than Completion and Expiration is
\* acknowledged without error and recorded as unhandled, in the step that
\* accepts it, and that step changes no stock, reservation, cart, order, order
\* item or payment.
C25_OtherEventIgnored ==
  [][\A r \in Reqs :
       req'[r].kind = "webhook" =>
         /\ req'[r].pc = "done"
         /\ req'[r].outcome = "unhandled"
         /\ req[r].pc = "idle" => db' = db]_vars

\* an event of another type was acknowledged while a cart held reservations and
\* its pending Order awaited settlement
C25_Witness ==
  /\ \E r \in Reqs : req[r].kind = "webhook" /\ Done(r) /\ req[r].outcome = "unhandled"
  /\ \E x \in reservations : \E o \in orders : o.cart_id = x.cart_id /\ o.status = "pending"

\* ---- middleware/error: the response of a failed checkout ------------------------
\* what the checkout handler throws on each of its failure outcomes: an AppError
\* with its message and status code, or an error of another class (raised by the
\* database driver)
CheckoutError(outcome) ==
  CASE outcome = "cart_empty" -> [app |-> TRUE, message |-> "Cart is empty", statusCode |-> 400]
    [] outcome = "cart_expired" ->
         [app |-> TRUE, message |-> "Cart has expired", statusCode |-> 400]
    [] outcome = "already_checked_out" ->
         [app |-> TRUE, message |-> "Cart already checked out", statusCode |-> 400]
    [] outcome = "insufficient_stock" ->
         [app |-> TRUE, message |-> "Insufficient stock", statusCode |-> 400]
    [] outcome = "stock_changed" ->
         [app |-> TRUE, message |-> "Stock changed, please try again", statusCode |-> 400]
    [] outcome = "session_failed" ->
         [app |-> TRUE, message |-> "Failed to create checkout session", statusCode |-> 500]
    [] outcome = "session_no_url" ->
         [app |-> TRUE, message |-> "Checkout creating failed", statusCode |-> 500]
    [] OTHER -> [app |-> FALSE, message |-> "driver error", statusCode |-> 0]

\* errorHandler: an AppError is answered with its message and status code, any
\* other error with 500; both carry the request id
errorHandler(err, requestId) ==
  IF err.app
  THEN [status |-> err.statusCode, body |-> [error |-> err.message, request_id |-> requestId]]
  ELSE [status |-> 500, body |-> [error |-> "Internal Server Error", request_id |-> requestId]]

\* the response to the checkout request in slot r once it has returned
CheckoutResponse(r) ==
  IF req[r].outcome = "ok"
  THEN [status |-> 200, body |-> [checkout_url |-> TRUE, session_id |-> req[r].sess]]
  ELSE errorHandler(CheckoutError(req[r].outcome), r)

\* C26: the response to a checkout rejected for insufficient stock names, per
\* short item, the unit with the requested and the available quantity; the
\* response to every other failed checkout carries only a message and the
\* request id.
C26_ShortfallReported ==
  \A r \in Reqs :
    (req[r].kind = "checkout" /\ Done(r) /\ req[r].outcome # "ok") =>
      LET body == CheckoutResponse(r).body IN
      IF req[r].outcome = "insufficient_stock"
      THEN /\ "items" \in DOMAIN body
           /\ body.items # {}
           /\ \A d \in body.items :
                /\ \E k \in 1..Len(cartItems[req[r].cart]) :
                     /\ cartItems[req[r].cart][k].variant_id = d.variant_id
                     /\ cartItems[req[r].cart][k].quantity = d.requested
                /\ d.available < d.requested
      ELSE /\ DOMAIN body = {"error", "request_id"}
           /\ body.request_id = r

\* C27: whatever add-item requests ran, in sequence or overlapping, a cart holds
\* at most one cart item per unit and never more of a unit than its
\* max_quantity.
C27_MaxQuantityKept ==
  \A c \in Carts : \A v \in Variants :
    /\ SumItems(cartItems[c], 1, v) <= max_quantity[v]
    /\ Cardinality({k \in 1..Len(cartItems[c]) : cartItems[c][k].variant_id = v}) <= 1

\* the Completion notification in slot r was handled to its end, it is the only
\* Completion of its session, and the cart was checked out once
SingleCompletion(r) ==
  /\ req[r].kind = "completed" /\ Done(r) /\ req[r].outcome = "ok"
  /\ \A q \in Reqs : (req[q].kind = "completed" /\ req[q].sess = req[r].sess) => q = r
  /\ OneCheckoutPerCart

\* C29: the order items of a paid Order carry, per unit, exactly the quantity
\* that was reserved for the cart at checkout, also when add-item and
\* remove-item requests arrive between checkout and Completion.
C29_OrderItemsAsReserved ==
  \A r \in Reqs :
    SingleCompletion(r) =>
      LET o == OrderOfSession(req[r].sess) IN
      o.status = "paid" =>
        \A v \in Variants : SumRows(ItemsOfOrder(o.id), v) = SumItems(o.reserved, 1, v)

\* C28: clearReservations deletes every reservation row of the cart, no row of
\* another cart, and leaves stock unchanged; restoreStockFromReservations, when
\* nothing touched the cart's rows since it selected them, raises the stock of
\* every unit by the sum of the cart's rows of that unit and deletes exactly
\* those rows, and does nothing when the cart has no rows.
C28_ReleaseAndClearFrames ==
  [][\A r \in Reqs :
       LET mine == RowsOfCart(req[r].cart) IN
       /\ (req[r].pc = "cp_clear" /\ req'[r].pc # "cp_clear") =>
            /\ reservations' = reservations \ mine
            /\ stock' = stock
       /\ (req[r].pc = "restore_select" /\ req'[r].pc # "restore_select") =>
            /\ stock' = stock /\ reservations' = reservations
            /\ req'[r].pc = "restore_tx" <=> mine # {}
       /\ (req[r].pc = "restore_tx" /\ req'[r].pc # "restore_tx" /\ req[r].rows = mine) =>
            /\ reservations' = reservations \ mine
            /\ \A v \in Variants : stock'[v] = stock[v] + SumRows(mine, v)]_vars

\* the reservations of the two-item cart were released after its session
\* failed, while the other cart held its own reservation
C28_Witness ==
  \E r \in Reqs :
    /\ SessionFailed(r)
    /\ Len(cartItems[req[r].cart]) = 2
    /\ RowsOfCart(req[r].cart) = {}
    /\ reservations # {}

\* requests 1 and 2 are checkouts of one cart, both have returned and no other
\* request was made
SameCartCheckouts ==
  /\ \A r \in Reqs : IF r <= 2 THEN req[r].kind = "checkout" /\ Done(r) ELSE ~Accepted(r)
  /\ req[1].cart = req[2].cart

\* C30: of two checkouts of one cart at most one keeps stock reserved: after
\* both have returned the cart holds at most one reservation row per cart item,
\* and what is missing from stock is nothing or the cart's item quantities
\* counted once.
C30_SameCartReservedOnce ==
  SameCartCheckouts =>
    LET c == req[1].cart IN
    /\ Cardinality(RowsOfCart(c)) <= Len(cartItems[c])
    /\ \A v \in Variants :
         initStock[v] - stock[v] \in {0, SumItems(cartItems[c], 1, v)}

CartHasOrder(os, c) == \E o \in os : o.cart_id = c

\* the step with which the checkout request in slot r returns
CheckoutReturns(r) ==
  /\ req[r].pc # "done"
  /\ req'[r].kind = "checkout" /\ req'[r].pc = "done"

\* C31: when a checkout request returns, with success or with an error, the
\* cart is ordered if and only if an Order of the cart exists: a failed checkout
\* does not leave the cart ordered without an Order.
C31_OrderedIffOrder ==
  [][\A r \in Reqs :
       CheckoutReturns(r) =>
         (cartStatus'[req'[r].cart] = "ordered" <=> CartHasOrder(orders', req'[r].cart))]_vars

\* the cart contains a unit that has no inventory record
HasUnlistedUnit(c) ==
  \E k \in 1..Len(cartItems[c]) : ~HasInventory(stock, cartItems[c][k].variant_id)

\* C32: a unit without inventory record cannot be purchased: a checkout of a
\* cart that contains one is rejected by the read-only check (unless the cart
\* had expired), no step of it changes stock or reservations, the cart never
\* holds a reservation, and reserveStock called for the cart's items fails and
\* returns stock and reservations as they were.
C32_NoRecordNotPurchasable ==
  /\ [](\A c \in Carts :
          HasUnlistedUnit(c) =>
            /\ RowsOfCart(c) = {}
            /\ \A r \in Reqs :
                 (req[r].kind = "checkout" /\ req[r].cart = c /\ Done(r)) =>
                   req[r].outcome \in {"insufficient_stock", "cart_expired"}
            /\ LET res == reserveStock(stock, reservations, 1, c, cartItems[c],
                                       now + HoldTicks)
               IN ~res.success /\ res.stock = stock /\ res.rows = reservations)
  /\ [][\A r \in Reqs :
          (/\ req'[r] # req[r]
           /\ req'[r].kind = "checkout"
           /\ HasUnlistedUnit(req'[r].cart)) =>
            stock' = stock /\ reservations' = reservations]_vars

\* the cart with the unit without record was rejected for stock while the other
\* cart held a reservation of the unit that has a record
C32_Witness ==
  /\ \E r \in Reqs : /\ req[r].kind = "checkout" /\ Done(r)
                     /\ HasUnlistedUnit(req[r].cart)
                     /\ req[r].outcome = "insufficient_stock"
  /\ reservations # {}
  /\ stock # initStock

\* C33: a webhook request whose signature header is missing is answered 400,
\* one received while no webhook secret is configured 500, one whose signature
\* does not verify 400; such a request returns in the step that accepts it,
\* before the switch on the event type, and changes no stock, reservation,
\* cart, order, order item or payment.
C33_UnverifiedRejected ==
  /\ [](/\ \A k \in BOOLEAN : WebhookVerify("missing", k).status = 400
        /\ \A g \in Signatures \ {"missing"} : WebhookVerify(g, FALSE).status = 500
        /\ WebhookVerify("invalid", TRUE).status = 400)
  /\ [][\A r \in Reqs :
          req'[r].kind = "unverified" =>
            /\ req'[r].pc = "done"
            /\ req'[r].outcome \in {"Missing stripe-signature header",
                                    "Webhook secret not configured",
                                    "Invalid webhook signature"}
            /\ req[r].pc = "idle" => (db' = db /\ sessions' = sessions)]_vars

\* a request whose signature does not verify was rejected while a cart held a
\* reservation and its pending Order awaited settlement
C33_Witness ==
  /\ \E r \in Reqs : req[r].kind = "unverified" /\ Done(r)
                     /\ req[r].outcome = "Invalid webhook signature"
  /\ \E x \in reservations : \E o \in orders : o.cart_id = x.cart_id /\ o.status = "pending"

\* a Completion notification of a session of cart c found its Order and was
\* handled to its end
CompletionHandled(c) ==
  \E r \in Reqs : /\ req[r].kind = "completed" /\ Done(r)
                  /\ req[r].outcome = "ok" /\ req[r].cart = c

\* C34: once a Completion notification has been handled for an existing Order,
\* the cart has no reservation rows, and no step that a notification or a
\* checkout about that cart takes afterwards changes the stock of any unit: the
\* decrement taken at checkout stays.
C34_DecrementPermanent ==
  [][/\ \A c \in Carts : CompletionHandled(c) => RowsOfCart(c) = {}
     /\ \A q \in Reqs :
          (/\ req'[q] # req[q]
           /\ req'[q].kind \in {"completed", "expired", "checkout"}
           /\ CompletionHandled(req'[q].cart)) =>
            stock' = stock]_vars
====
